---------------------------- MODULE Spec2Model ----------------------------
(***************************************************************************)
(* A model of the HLS evaluation pipeline of hls_script.py                 *)
(* (find_vivado_hls, hls_evaluation and its nested parse_reports) and of   *)
(* the wrapper verify_hls_code of verify.py / verify_single_case.py.       *)
(*                                                                         *)
(* Text is a sequence of one-character strings.  A dict is a record; the   *)
(* empty dict is the record with the empty domain.  The build directory is *)
(* a function from the names of the entries it holds to their contents.    *)
(* The report text is represented by what each regular expression of       *)
(* parse_reports finds in it: the captured groups, as text.                *)
(***************************************************************************)
EXTENDS Integers, Sequences, FiniteSets, TLC

VARIABLES
    pc,               \* position of the one (synchronous) call
    header_files,     \* verify_hls_code's argument: the header names passed
    vivado_hls_path,  \* hls_evaluation's parameter / local
    build_exists,     \* whether <cwd>/build exists
    fs,               \* entries of <cwd>/build: name -> content
    proc,             \* the CompletedProcess of subprocess.run, or NoProc
    invocations,      \* how many times the tool process was started
    wait_time,        \* parse_reports' local: seconds slept so far
    checks,           \* existence checks of the report made by the loop
    report_file,      \* parse_reports' local: TRUE once the loop found it
    result,           \* parse_reports' local dict "result"
    report_results,   \* what parse_reports returned
    outcome,          \* what hls_evaluation returned
    exception         \* the exception that left hls_evaluation, or "none"

vars == <<pc, header_files, vivado_hls_path, build_exists, fs, proc,
          invocations, wait_time, checks, report_file, result,
          report_results, outcome, exception>>

-----------------------------------------------------------------------------
(* Bounds of the model and constants of the program.                       *)

\* header files a caller passes are drawn from 1..MaxHeaders
MaxHeaders == 2

\* max_wait = 5
max_wait == 5

\* proc.stderr[-500:], proc.stdout[-500:]
TailLen == 500

\* the utilization table: six captured cells per row
NumCols == 6
total_idx == 7
available_idx == 8
utilization_idx == 9

-----------------------------------------------------------------------------
(* Dicts, text and numeric conversion.                                     *)

EmptyDict == [k \in {} |-> 0]

\* dict.get(key, default)
Get(d, key, default) == IF key \in DOMAIN d THEN d[key] ELSE default

None == "None"

Digits == {"0", "1", "2", "3", "4", "5", "6", "7", "8", "9"}

DigitVal(c) ==
    CASE c = "0" -> 0 [] c = "1" -> 1 [] c = "2" -> 2 [] c = "3" -> 3
      [] c = "4" -> 4 [] c = "5" -> 5 [] c = "6" -> 6 [] c = "7" -> 7
      [] c = "8" -> 8 [] c = "9" -> 9

\* str.strip(): leading and trailing blanks removed
RECURSIVE LStrip(_)
LStrip(s) == IF s # <<>> /\ Head(s) = " " THEN LStrip(Tail(s)) ELSE s

RECURSIVE RStrip(_)
RStrip(s) ==
    IF s # <<>> /\ s[Len(s)] = " " THEN RStrip(SubSeq(s, 1, Len(s) - 1)) ELSE s

Strip(s) == RStrip(LStrip(s))

\* s[-n:]
LastN(s, n) == IF Len(s) <= n THEN s ELSE SubSeq(s, Len(s) - n + 1, Len(s))

\* the value of a run of decimal digits
RECURSIVE DecValue(_)
DecValue(s) ==
    IF s = <<>> THEN 0
    ELSE 10 * DecValue(SubSeq(s, 1, Len(s) - 1)) + DigitVal(s[Len(s)])

AllDigits(s) == \A i \in 1..Len(s) : s[i] \in Digits

\* int(text): ValueError unless the stripped text is a non-empty digit run
IntOk(s) == Strip(s) # <<>> /\ AllDigits(Strip(s))
IntOf(s) == DecValue(Strip(s))

\* float(text): the stripped text is digits with at most one point and at
\* least one digit; the value is the integer part and the fraction digits
\* without trailing zeros (so "5", "5." and "5.0" are one value).
DotPositions(s) == {i \in 1..Len(s) : s[i] = "."}

RECURSIVE DropTrailingZeros(_)
DropTrailingZeros(s) ==
    IF s # <<>> /\ s[Len(s)] = "0"
    THEN DropTrailingZeros(SubSeq(s, 1, Len(s) - 1))
    ELSE s

FloatOk(s) ==
    LET t == Strip(s) IN
    /\ \A i \in 1..Len(t) : t[i] \in Digits \cup {"."}
    /\ Cardinality(DotPositions(t)) <= 1
    /\ \E i \in 1..Len(t) : t[i] \in Digits

FloatOf(s) ==
    LET t == Strip(s)
        d == DotPositions(t)
        p == IF d = {} THEN Len(t) + 1 ELSE CHOOSE i \in d : TRUE
    IN  [whole |-> DecValue(SubSeq(t, 1, p - 1)),
         frac  |-> DropTrailingZeros(SubSeq(t, p + 1, Len(t)))]

-----------------------------------------------------------------------------
(* The report text, as seen by the regular expressions of parse_reports.   *)
(* Each field is what re.search returns for one pattern: no match, or the  *)
(* captured groups.                                                        *)

NoMatch == [matched |-> FALSE]
Match(groups) == [matched |-> TRUE, groups |-> groups]

\* captured cells of the Timing summary row: clock, target, estimated,
\* uncertainty ([^|]+ captures any cell text, blanks included)
TimingRowGood ==
    << <<" ", "c", "l", "k", " ">>, <<" ", "5", ".", "0", "0", " ">>,
       <<" ", "3", ".", "2", " ">>, <<" ", "0", ".", "6", "2", " ">> >>
TimingRowBadUncertainty ==
    << <<" ", "c", "l", "k", " ">>, <<" ", "5", ".", "0", "0", " ">>,
       <<" ", "3", ".", "2", " ">>, <<" ", "n", "/", "a", " ">> >>

\* captured cells of the Latency summary row: min, max, interval min,
\* interval max, pipeline type; the tool prints "?" for a latency it cannot
\* bound (a loop with a variable trip count)
LatencyRowGood ==
    << <<" ", "1", "0", "0", " ">>, <<" ", "1", "0", "0", " ">>,
       <<" ", "1", " ">>, <<" ", "1", " ">>, <<" ", "p", "i", "p", "e", " ">> >>
LatencyRowUnknown ==
    << <<" ", "?", " ">>, <<" ", "?", " ">>,
       <<" ", "?", " ">>, <<" ", "?", " ">>, <<" ", "n", "o", "n", "e", " ">> >>

\* the ten captured rows of the Utilization table, six cells each
Dash == <<" ", "-", " ">>
CategoryRow(name) == <<name, Dash, Dash, Dash, Dash, Dash>>
TotalRow(ff) ==
    << <<"T", "o", "t", "a", "l", " ">>, <<" ", "2", " ">>, <<" ", "0", " ">>,
       ff, <<" ", "2", "0", "0", " ">>, <<" ", "0", " ">> >>
AvailableRow ==
    << <<"A", "v", "a", "i", "l", " ">>, <<" ", "6", "2", "4", " ">>,
       <<" ", "1", "7", "2", "8", " ">>, <<" ", "9", "9", "9", " ">>,
       <<" ", "8", "0", "0", " ">>, <<" ", "9", "6", " ">> >>
PercentRow ==
    << <<"U", "t", "i", "l", " ">>, <<" ", "~", "0", " ">>, <<" ", "0", " ">>,
       <<" ", "1", "2", " ">>, <<" ", "2", "5", " ">>, <<" ", "0", " ">> >>
UtilizationGroups(ff) ==
    CategoryRow(<<"D", "S", "P">>) \o CategoryRow(<<"E", "x", "p", "r">>)
      \o CategoryRow(<<"F", "I", "F", "O">>) \o CategoryRow(<<"I", "n", "s", "t">>)
      \o CategoryRow(<<"M", "e", "m">>) \o CategoryRow(<<"M", "u", "x">>)
      \o CategoryRow(<<"R", "e", "g">>) \o TotalRow(ff) \o AvailableRow
      \o PercentRow
UtilizationGood == UtilizationGroups(<<" ", "1", "2", "0", " ">>)
UtilizationBadFF == UtilizationGroups(Dash)

\* what the fallback patterns capture: ([\d.]+) for the timing labels,
\* (\d+) x 4 and ([a-z]+) for the latency row, (\d+) after each resource label
FallbackTimingPairs ==
    { <<NoMatch, NoMatch>>,
      <<Match(<< <<"5", ".", "0">> >>), Match(<< <<"3", ".", "2">> >>)>>,
      <<Match(<< <<"5", ".", "0">> >>), NoMatch>>,
      <<Match(<< <<".">> >>), Match(<< <<"3", ".", "2">> >>)>> }
FallbackLatencyRow ==
    << <<"1", "0", "0">>, <<"1", "0", "0">>, <<"1">>, <<"1">>,
       <<"p", "i", "p", "e">> >>
\* bram, dsp, ff, lut
FallbackUtilizations ==
    { <<NoMatch, NoMatch, NoMatch, NoMatch>>,
      <<Match(<< <<"2">> >>), Match(<< <<"0">> >>),
        Match(<< <<"1", "2", "0">> >>), Match(<< <<"2", "0", "0">> >>)>>,
      <<Match(<< <<"2">> >>), NoMatch,
        Match(<< <<"1", "2", "0">> >>), NoMatch>> }

Reports ==
    { [timing_section      |-> pt,
       latency_section     |-> pl,
       utilization_section |-> pu,
       target_match        |-> ft[1],
       estimated_match     |-> ft[2],
       latency_match       |-> fl,
       bram_match          |-> fu[1],
       dsp_match           |-> fu[2],
       ff_match            |-> fu[3],
       lut_match           |-> fu[4]] :
      pt \in {NoMatch, Match(TimingRowGood), Match(TimingRowBadUncertainty)},
      pl \in {NoMatch, Match(LatencyRowGood), Match(LatencyRowUnknown)},
      pu \in {NoMatch, Match(UtilizationGood), Match(UtilizationBadFF)},
      ft \in FallbackTimingPairs,
      fl \in {NoMatch, Match(FallbackLatencyRow)},
      fu \in FallbackUtilizations }

-----------------------------------------------------------------------------
(* parse_reports: the primary patterns.                                    *)

Sections == {"timing", "latency", "utilization"}

\* the dict parse_reports returns from its except clause
ParseErrorResult ==
    [error |-> <<"report parse error: ", "ValueError">>,
     timing |-> EmptyDict, latency |-> EmptyDict, utilization |-> EmptyDict]

\* the dict parse_reports returns when the loop found no report
ReportNotFoundResult ==
    [error |-> <<"report file not found">>,
     timing |-> EmptyDict, latency |-> EmptyDict, utilization |-> EmptyDict]

TimingPrimaryRaises(m) ==
    m.matched /\ \E i \in 2..4 : ~FloatOk(m.groups[i])

TimingPrimary(m) ==
    IF m.matched
    THEN [clock       |-> Strip(m.groups[1]),
          target      |-> FloatOf(m.groups[2]),
          estimated   |-> FloatOf(m.groups[3]),
          uncertainty |-> FloatOf(m.groups[4])]
    ELSE EmptyDict

LatencyPrimaryRaises(m) ==
    m.matched /\ \E i \in 1..4 : ~IntOk(m.groups[i])

LatencyPrimary(m) ==
    IF m.matched
    THEN [min           |-> IntOf(m.groups[1]),
          max           |-> IntOf(m.groups[2]),
          interval_min  |-> IntOf(m.groups[3]),
          interval_max  |-> IntOf(m.groups[4]),
          pipeline_type |-> Strip(m.groups[5])]
    ELSE EmptyDict

\* group(row * 6 + 2) .. group(row * 6 + 6)
UtilCell(m, row, col) == m.groups[row * NumCols + col]

UtilizationPrimaryRaises(m) ==
    m.matched /\ \E row \in {total_idx, available_idx} :
                    \E col \in 2..6 : ~IntOk(UtilCell(m, row, col))

RowCounts(m, row) ==
    [BRAM |-> IntOf(UtilCell(m, row, 2)),
     DSP  |-> IntOf(UtilCell(m, row, 3)),
     FF   |-> IntOf(UtilCell(m, row, 4)),
     LUT  |-> IntOf(UtilCell(m, row, 5)),
     URAM |-> IntOf(UtilCell(m, row, 6))]

UtilizationPrimary(m) ==
    IF m.matched
    THEN [BRAM |-> IntOf(UtilCell(m, total_idx, 2)),
          DSP  |-> IntOf(UtilCell(m, total_idx, 3)),
          FF   |-> IntOf(UtilCell(m, total_idx, 4)),
          LUT  |-> IntOf(UtilCell(m, total_idx, 5)),
          URAM |-> IntOf(UtilCell(m, total_idx, 6)),
          available |-> RowCounts(m, available_idx),
          utilization_percentage |->
              [BRAM |-> Strip(UtilCell(m, utilization_idx, 2)),
               DSP  |-> Strip(UtilCell(m, utilization_idx, 3)),
               FF   |-> Strip(UtilCell(m, utilization_idx, 4)),
               LUT  |-> Strip(UtilCell(m, utilization_idx, 5)),
               URAM |-> Strip(UtilCell(m, utilization_idx, 6))]]
    ELSE EmptyDict

PrimaryRaises(content) ==
    \/ TimingPrimaryRaises(content.timing_section)
    \/ LatencyPrimaryRaises(content.latency_section)
    \/ UtilizationPrimaryRaises(content.utilization_section)

PrimaryResult(content) ==
    [timing      |-> TimingPrimary(content.timing_section),
     latency     |-> LatencyPrimary(content.latency_section),
     utilization |-> UtilizationPrimary(content.utilization_section)]

-----------------------------------------------------------------------------
(* parse_reports: the fallback patterns.                                   *)

\* a variant of the tests of lines 224, 235, 248: the fallback of a section
\* is tried whatever the section holds
NeedsFallbackAlways(section) == TRUE

\* "if not result[section]": the fallback of a section is tried
NeedsFallback(section) == section = EmptyDict

TimingFallbackRaises(res, content) ==
    /\ NeedsFallback(res.timing)
    /\ content.target_match.matched /\ content.estimated_match.matched
    /\ \/ ~FloatOk(content.target_match.groups[1])
       \/ ~FloatOk(content.estimated_match.groups[1])

TimingFallback(res, content) ==
    IF /\ NeedsFallback(res.timing)
       /\ content.target_match.matched /\ content.estimated_match.matched
    THEN [target    |-> FloatOf(content.target_match.groups[1]),
          estimated |-> FloatOf(content.estimated_match.groups[1])]
    ELSE res.timing

LatencyFallback(res, content) ==
    IF NeedsFallback(res.latency) /\ content.latency_match.matched
    THEN [min           |-> IntOf(content.latency_match.groups[1]),
          max           |-> IntOf(content.latency_match.groups[2]),
          interval_min  |-> IntOf(content.latency_match.groups[3]),
          interval_max  |-> IntOf(content.latency_match.groups[4]),
          pipeline_type |-> content.latency_match.groups[5]]
    ELSE res.latency

UtilizationFallback(res, content) ==
    IF /\ NeedsFallback(res.utilization)
       /\ content.bram_match.matched /\ content.dsp_match.matched
       /\ content.ff_match.matched /\ content.lut_match.matched
    THEN [BRAM |-> IntOf(content.bram_match.groups[1]),
          DSP  |-> IntOf(content.dsp_match.groups[1]),
          FF   |-> IntOf(content.ff_match.groups[1]),
          LUT  |-> IntOf(content.lut_match.groups[1])]
    ELSE res.utilization

\* the outer test of line 220
AnySectionEmpty(res) == \E s \in Sections : res[s] = EmptyDict

FallbackRaises(res, content) ==
    AnySectionEmpty(res) /\ TimingFallbackRaises(res, content)

FallbackResult(res, content) ==
    IF AnySectionEmpty(res)
    THEN [timing      |-> TimingFallback(res, content),
          latency     |-> LatencyFallback(res, content),
          utilization |-> UtilizationFallback(res, content)]
    ELSE res

-----------------------------------------------------------------------------
(* The build directory and the values hls_evaluation builds.               *)

SRC == "top.cpp"
TCL == "run.tcl"
LOG == "vivado_hls.log"
DEBUG == "report_content.txt"
REPORT_DIR == "top_prj/solution1/syn/report"
REPORT == "top_prj/solution1/syn/report/top_csynth.rpt"

HeaderNames == <<"a.h", "b.h", "c.h", "d.h">>
HeaderSet == {HeaderNames[i] : i \in 1..MaxHeaders}

CodeText == <<"c", "o", "d", "e">>
HeaderText == <<"h", "d", "r">>
DirEntry == <<"<dir>">>

WriteFile(f, name, text) ==
    [n \in DOMAIN f \cup {name} |-> IF n = name THEN text ELSE f[n]]

RECURSIVE WriteHeaders(_, _)
WriteHeaders(f, names) ==
    IF names = {} THEN f
    ELSE LET n == CHOOSE x \in names : TRUE
         IN  WriteHeaders(WriteFile(f, n, HeaderText), names \ {n})

\* tcl_script.format(top_function, src_file.name, target_device, clock_period)
TclScript(top, src, device, period) ==
    <<"open_project -reset ", top, "_prj", "add_files ", src, "set_top ", top,
      "open_solution -reset solution1", "set_part {", device, "}",
      "create_clock -period ", period, " -name default", "csynth_design",
      "exit">>

\* lines 59-90: build/ removed when it exists, made anew, source and script
\* written into it
Materialized(exists, f) ==
    LET fresh == IF exists THEN EmptyDict ELSE f
    IN  WriteFile(WriteFile(fresh, SRC, CodeText), TCL,
                  TclScript("top", SRC, "xczu7ev-ffvc1156-2-e", "5.0"))

\* what the tool can do: exit code and the two captured streams
OUT == <<"o", "u", "t">>
ERR == <<"e", "r", "r">>
ToolRuns ==
    { [returncode |-> rc, stdout |-> so, stderr |-> se] :
      rc \in {0, 1, 2}, so \in {<<>>, OUT}, se \in {<<>>, ERR} }

NoProc == EmptyDict

\* lines 103-107: the transcript written to vivado_hls.log
LogText(p) ==
    IF p.stderr # <<>>
    THEN p.stdout \o <<"\n\nSTDERR:\n">> \o p.stderr
    ELSE p.stdout

\* a variant of the test of line 110: only exit code 1 counts as a failure
ExitFailedOnlyOne(rc) == rc = 1

\* line 110
ExitFailed(rc) == rc # 0

\* lines 53-56
ToolNotFound ==
    [error   |-> <<"vivado_hls command not found">>,
     raw_log |-> <<"Command 'vivado_hls' not found">>]

\* lines 111-114
SynthesisFailed(p) ==
    [error   |-> <<"HLS synthesis failed: ">>
                   \o LastN(IF p.stderr # <<>> THEN p.stderr ELSE p.stdout,
                            TailLen),
     raw_log |-> IF p.stderr # <<>> THEN p.stderr ELSE p.stdout]

\* lines 282-286
ExecutionError(e) ==
    [error   |-> <<"error during execution: ", e>>,
     raw_log |-> <<"Exception occurred during execution: ", e>>]

\* a variant of lines 275-281: the error key of parse_reports' dict is
\* passed on to the caller
SuccessOutcomePassingError(rr, stdout) ==
    IF "error" \in DOMAIN rr
    THEN [error |-> rr.error, raw_log |-> stdout]
    ELSE [status      |-> "success",
          timing      |-> Get(rr, "timing", EmptyDict),
          latency     |-> Get(rr, "latency", EmptyDict),
          utilization |-> Get(rr, "utilization", EmptyDict),
          raw_log     |-> stdout]

\* lines 275-281
SuccessOutcome(rr, stdout) ==
    [status      |-> "success",
     timing      |-> Get(rr, "timing", EmptyDict),
     latency     |-> Get(rr, "latency", EmptyDict),
     utilization |-> Get(rr, "utilization", EmptyDict),
     raw_log     |-> stdout]

\* the path a caller passes (line 310 names the first of the common paths)
GivenPath == "C:/Xilinx/Vivado/2018.3/bin/vivado_hls.bat"

\* find_vivado_hls, by what the host offers: one of the common paths exists;
\* "where vivado_hls" prints a path; "where" exits non-zero
\* (CalledProcessError, caught); "where" cannot be started (OSError, not
\* caught by the except clause of line 31)
Hosts == {"common_path", "where_finds", "where_fails", "where_missing"}

FindVivadoHls(host) ==
    CASE host = "common_path"   -> [raised |-> FALSE, path |-> GivenPath]
      [] host = "where_finds"   -> [raised |-> FALSE, path |-> "vivado_hls"]
      [] host = "where_fails"   -> [raised |-> FALSE, path |-> None]
      [] host = "where_missing" -> [raised |-> TRUE,  path |-> None]

\* a variant of the loop test of line 125: one more round
LoopContinuesInclusive(w) == w <= max_wait

\* line 125
LoopContinues(w) == w < max_wait

\* lines 126-128
ReportExists(f) == REPORT_DIR \in DOMAIN f /\ REPORT \in DOMAIN f

-----------------------------------------------------------------------------
(* The state before a call: no build directory, an empty one, or the one a *)
(* previous run left behind.                                               *)

PreviousRun ==
    [n \in {SRC, TCL, LOG, REPORT_DIR} |->
        CASE n = SRC        -> CodeText
          [] n = TCL        -> TclScript("top", SRC, "xczu7ev-ffvc1156-2-e", "5.0")
          [] n = LOG        -> OUT
          [] n = REPORT_DIR -> DirEntry]

Init ==
    /\ pc = "idle"
    /\ header_files = {}
    /\ vivado_hls_path = None
    /\ \/ build_exists = FALSE /\ fs = EmptyDict
       \/ build_exists = TRUE /\ fs \in {EmptyDict, PreviousRun}
    /\ proc = NoProc
    /\ invocations = 0
    /\ wait_time = 0
    /\ checks = 0
    /\ report_file = FALSE
    /\ result = EmptyDict
    /\ report_results = EmptyDict
    /\ outcome = EmptyDict
    /\ exception = "none"

-----------------------------------------------------------------------------
(* The calls.                                                              *)

\* verify_hls_code (verify.py, verify_single_case.py) up to its call of
\* hls_evaluation: os.makedirs(build, exist_ok=True), then the headers
VerifyHlsCode ==
    /\ pc = "idle"
    /\ \E hf \in SUBSET HeaderSet, path \in {None, GivenPath} :
          /\ header_files' = hf
          /\ vivado_hls_path' = path
          /\ fs' = WriteHeaders(fs, hf)
    /\ build_exists' = TRUE
    /\ pc' = "locate"
    /\ UNCHANGED <<proc, invocations, wait_time, checks, report_file, result,
                   report_results, outcome, exception>>

\* hls_evaluation called directly (the __main__ block of hls_script.py)
HlsEvaluation ==
    /\ pc = "idle"
    /\ \E path \in {None, GivenPath} : vivado_hls_path' = path
    /\ pc' = "locate"
    /\ UNCHANGED <<header_files, build_exists, fs, proc, invocations,
                   wait_time, checks, report_file, result, report_results,
                   outcome, exception>>

\* lines 48-56
LocateTool ==
    /\ pc = "locate"
    /\ IF vivado_hls_path # None
       THEN /\ pc' = "materialize"
            /\ UNCHANGED <<vivado_hls_path, outcome, exception>>
       ELSE \E host \in Hosts :
               LET found == FindVivadoHls(host) IN
               IF found.raised
               THEN /\ pc' = "raised"
                    /\ exception' = "OSError"
                    /\ UNCHANGED <<vivado_hls_path, outcome>>
               ELSE IF found.path # None
               THEN /\ pc' = "materialize"
                    /\ vivado_hls_path' = found.path
                    /\ UNCHANGED <<outcome, exception>>
               ELSE /\ pc' = "done"
                    /\ outcome' = ToolNotFound
                    /\ UNCHANGED <<vivado_hls_path, exception>>
    /\ UNCHANGED <<header_files, build_exists, fs, proc, invocations,
                   wait_time, checks, report_file, result, report_results>>

\* lines 59-90, outside the try statement: an OSError of rmtree, mkdir or
\* open leaves hls_evaluation
Materialize ==
    /\ pc = "materialize"
    /\ \E io_ok \in BOOLEAN :
          IF io_ok
          THEN /\ fs' = Materialized(build_exists, fs)
               /\ build_exists' = TRUE
               /\ pc' = "spawn"
               /\ UNCHANGED exception
          ELSE /\ pc' = "raised"
               /\ exception' = "OSError"
               /\ UNCHANGED <<fs, build_exists>>
    /\ UNCHANGED <<header_files, vivado_hls_path, proc, invocations,
                   wait_time, checks, report_file, result, report_results,
                   outcome>>

\* lines 93-100 (and 282-286 when subprocess.run raises).  A tool that
\* exits 0 may have written its report before it exits.
RunTool ==
    /\ pc = "spawn"
    /\ \E spawn_ok \in BOOLEAN :
          IF spawn_ok
          THEN /\ \E run \in ToolRuns :
                     /\ proc' = run
                     /\ IF run.returncode = 0
                        THEN \/ fs' = fs
                             \/ fs' = WriteFile(fs, REPORT_DIR, DirEntry)
                             \/ \E c \in Reports :
                                  fs' = WriteFile(WriteFile(fs, REPORT_DIR, DirEntry),
                                                  REPORT, c)
                        ELSE fs' = fs
               /\ invocations' = invocations + 1
               /\ pc' = "log"
               /\ UNCHANGED outcome
          ELSE /\ outcome' = ExecutionError("OSError")
               /\ pc' = "done"
               /\ UNCHANGED <<proc, invocations, fs>>
    /\ UNCHANGED <<header_files, vivado_hls_path, build_exists, wait_time,
                   checks, report_file, result, report_results, exception>>

\* lines 103-107 (and 282-286 when open or write raises)
WriteLog ==
    /\ pc = "log"
    /\ \E io_ok \in BOOLEAN :
          IF io_ok
          THEN /\ fs' = WriteFile(fs, LOG, LogText(proc))
               /\ pc' = "exit_check"
               /\ UNCHANGED outcome
          ELSE /\ outcome' = ExecutionError("OSError")
               /\ pc' = "done"
               /\ UNCHANGED fs
    /\ UNCHANGED <<header_files, vivado_hls_path, build_exists, proc,
                   invocations, wait_time, checks, report_file, result,
                   report_results, exception>>

\* lines 110-114, then 119-124 when the exit code is 0
CheckExit ==
    /\ pc = "exit_check"
    /\ IF ExitFailed(proc.returncode)
       THEN /\ outcome' = SynthesisFailed(proc)
            /\ pc' = "done"
            /\ UNCHANGED <<wait_time, report_file>>
       ELSE /\ wait_time' = 0
            /\ report_file' = FALSE
            /\ pc' = "poll"
            /\ UNCHANGED outcome
    /\ UNCHANGED <<header_files, vivado_hls_path, build_exists, fs, proc,
                   invocations, checks, result, report_results, exception>>

\* lines 125-130: the loop test and one existence check
Poll ==
    /\ pc = "poll"
    /\ IF LoopContinues(wait_time)
       THEN /\ checks' = checks + 1
            /\ IF ReportExists(fs)
               THEN report_file' = TRUE /\ pc' = "located"
               ELSE report_file' = report_file /\ pc' = "sleep"
       ELSE /\ pc' = "located"
            /\ UNCHANGED <<checks, report_file>>
    /\ UNCHANGED <<header_files, vivado_hls_path, build_exists, fs, proc,
                   invocations, wait_time, result, report_results, outcome,
                   exception>>

\* lines 131-133: time.sleep(1); wait_time += 1
Sleep ==
    /\ pc = "sleep"
    /\ wait_time' = wait_time + 1
    /\ pc' = "poll"
    /\ UNCHANGED <<header_files, vivado_hls_path, build_exists, fs, proc,
                   invocations, checks, report_file, result, report_results,
                   outcome, exception>>

\* the tool's delayed flush of its report, while parse_reports waits for it
ToolCreatesReportDir ==
    /\ pc \in {"poll", "sleep"}
    /\ REPORT_DIR \notin DOMAIN fs
    /\ fs' = WriteFile(fs, REPORT_DIR, DirEntry)
    /\ UNCHANGED <<pc, header_files, vivado_hls_path, build_exists, proc,
                   invocations, wait_time, checks, report_file, result,
                   report_results, outcome, exception>>

ToolWritesReport ==
    /\ pc \in {"poll", "sleep"}
    /\ REPORT_DIR \in DOMAIN fs
    /\ REPORT \notin DOMAIN fs
    /\ \E c \in Reports : fs' = WriteFile(fs, REPORT, c)
    /\ UNCHANGED <<pc, header_files, vivado_hls_path, build_exists, proc,
                   invocations, wait_time, checks, report_file, result,
                   report_results, outcome, exception>>

\* lines 135-147
Located ==
    /\ pc = "located"
    /\ IF ~report_file \/ REPORT \notin DOMAIN fs
       THEN /\ report_results' = ReportNotFoundResult
            /\ pc' = "return"
       ELSE /\ pc' = "parse"
            /\ UNCHANGED report_results
    /\ UNCHANGED <<header_files, vivado_hls_path, build_exists, fs, proc,
                   invocations, wait_time, checks, report_file, result,
                   outcome, exception>>

\* what "result" holds when a conversion of the primary stage raises: the
\* sections assigned before it
PrimaryPartial(content) ==
    LET t == ~TimingPrimaryRaises(content.timing_section)
        l == t /\ ~LatencyPrimaryRaises(content.latency_section)
    IN  [timing      |-> IF t THEN TimingPrimary(content.timing_section)
                         ELSE EmptyDict,
         latency     |-> IF l THEN LatencyPrimary(content.latency_section)
                         ELSE EmptyDict,
         utilization |-> EmptyDict]

\* lines 149-217 (and 263-270 when a conversion raises)
ParsePrimary ==
    /\ pc = "parse"
    /\ LET content == fs[REPORT] IN
       /\ fs' = WriteFile(fs, DEBUG, content)
       /\ IF PrimaryRaises(content)
          THEN /\ result' = PrimaryPartial(content)
               /\ report_results' = ParseErrorResult
               /\ pc' = "return"
          ELSE /\ result' = PrimaryResult(content)
               /\ pc' = "fallback"
               /\ UNCHANGED report_results
    /\ UNCHANGED <<header_files, vivado_hls_path, build_exists, proc,
                   invocations, wait_time, checks, report_file, outcome,
                   exception>>

\* lines 219-262 (and 263-270 when a conversion raises)
ParseFallback ==
    /\ pc = "fallback"
    /\ LET content == fs[REPORT] IN
       IF FallbackRaises(result, content)
       THEN /\ report_results' = ParseErrorResult
            /\ UNCHANGED result
       ELSE /\ result' = FallbackResult(result, content)
            /\ report_results' = FallbackResult(result, content)
    /\ pc' = "return"
    /\ UNCHANGED <<header_files, vivado_hls_path, build_exists, fs, proc,
                   invocations, wait_time, checks, report_file, outcome,
                   exception>>

\* lines 273-281
ReturnSuccess ==
    /\ pc = "return"
    /\ outcome' = SuccessOutcome(report_results, proc.stdout)
    /\ pc' = "done"
    /\ UNCHANGED <<header_files, vivado_hls_path, build_exists, fs, proc,
                   invocations, wait_time, checks, report_file, result,
                   report_results, exception>>

Next ==
    \/ VerifyHlsCode
    \/ HlsEvaluation
    \/ LocateTool
    \/ Materialize
    \/ RunTool
    \/ WriteLog
    \/ CheckExit
    \/ Poll
    \/ Sleep
    \/ ToolCreatesReportDir
    \/ ToolWritesReport
    \/ Located
    \/ ParsePrimary
    \/ ParseFallback
    \/ ReturnSuccess

Spec == Init /\ [][Next]_vars

-----------------------------------------------------------------------------
(* Properties.                                                             *)

FailureKeys == {"error", "raw_log"}
SuccessKeys == {"status", "timing", "latency", "utilization", "raw_log"}

IsFailure(o) == DOMAIN o = FailureKeys
IsSuccess(o) == DOMAIN o = SuccessKeys /\ o.status = "success"

\* the tool process ran to its exit
ToolExited == proc # NoProc

\* needle occurs in hay as a contiguous piece
Contains(hay, needle) ==
    \E i \in 0..(Len(hay) - Len(needle)) :
        SubSeq(hay, i + 1, i + Len(needle)) = needle

\* C1: when the tool exits with a non-zero code the tool has been started
\* exactly once, no existence check of the report and no parsing is ever
\* made, and the outcome returned is a Failure: keys error and raw_log, none
\* of status, timing, latency, utilization.
C1_NonZeroExitIsFailure ==
    (ToolExited /\ proc.returncode # 0) =>
        /\ invocations = 1
        /\ checks = 0 /\ wait_time = 0 /\ ~report_file
        /\ result = EmptyDict /\ report_results = EmptyDict
        /\ DEBUG \notin DOMAIN fs
        /\ pc \in {"log", "exit_check", "done"}
        /\ pc = "done" =>
              /\ FailureKeys \subseteq DOMAIN outcome
              /\ DOMAIN outcome \cap {"status", "timing", "latency",
                                      "utilization"} = {}

C1_Witness ==
    /\ pc = "done"
    /\ ToolExited /\ proc.returncode = 2
    /\ LOG \in DOMAIN fs
    /\ IsFailure(outcome)

\* C2: when the tool exits 0 and every existence check of the polling loop
\* finds no report, the outcome returned is a Success with empty timing,
\* latency and utilization and with raw_log equal to the tool's stdout; the
\* error key of the locator's dict does not reach the outcome.
C2_MissingReportIsEmptySuccess ==
    (pc = "done" /\ ToolExited /\ proc.returncode = 0
        /\ checks > 0 /\ ~report_file) =>
        /\ DOMAIN outcome = SuccessKeys
        /\ outcome.status = "success"
        /\ outcome.timing = EmptyDict
        /\ outcome.latency = EmptyDict
        /\ outcome.utilization = EmptyDict
        /\ outcome.raw_log = proc.stdout

C2_Witness ==
    /\ pc = "done"
    /\ ToolExited /\ proc.returncode = 0 /\ proc.stdout = OUT
    /\ checks = max_wait /\ ~report_file
    /\ "error" \in DOMAIN report_results
    /\ IsSuccess(outcome)

\* C3: whenever hls_evaluation returns after it attempted to start the tool
\* (any return but the tool-not-found one), vivado_hls.log exists in the
\* build directory, and the log is there before the exit code is examined.
C3_LogAlwaysWritten ==
    /\ (pc = "done" /\ outcome # ToolNotFound) => LOG \in DOMAIN fs
    /\ pc = "exit_check" => LOG \in DOMAIN fs

\* C4: every Failure returned carries raw_log, and the Failure returned for
\* a non-zero exit has in raw_log all the tool wrote to stdout and all it
\* wrote to stderr.
C4_FailureCarriesFullTranscript ==
    (pc = "done" /\ "error" \in DOMAIN outcome) =>
        /\ "raw_log" \in DOMAIN outcome
        /\ (ToolExited /\ proc.returncode # 0 /\ LOG \in DOMAIN fs) =>
              /\ Contains(outcome.raw_log, proc.stdout)
              /\ Contains(outcome.raw_log, proc.stderr)

\* C5: at the moment the tool is started, the build directory holds every
\* header file passed to verify_hls_code, the source file and the control
\* script.
C5_HeadersPresentAtInvocation ==
    pc = "spawn" =>
        /\ header_files \subseteq DOMAIN fs
        /\ SRC \in DOMAIN fs
        /\ TCL \in DOMAIN fs

\* C6: the locator makes 6 existence checks (after 0, 1, 2, 3, 4 and 5
\* seconds) before it gives up, so when it gives up no report has appeared
\* in the 5 seconds since the tool's exit.
C6_SixChecksUpToCeiling ==
    (pc = "located" /\ ~report_file) =>
        /\ checks = max_wait + 1
        /\ ~ReportExists(fs)

\* the polling loop is at its test or in its sleep
InLoop(p) == p \in {"poll", "sleep"}

\* what is left of the loop: two steps per remaining round
LoopRank == 2 * (max_wait - wait_time) + (IF pc = "poll" THEN 1 ELSE 0)

\* C7: the polling loop terminates: it makes at most 6 existence checks and
\* sleeps at most 5 seconds in all, every step of the loop brings it nearer
\* to its end, and once a check has found the report there is no further
\* check and no further sleep.
C7_PollingBoundedAndStops ==
    /\ [](checks <= max_wait + 1 /\ wait_time <= max_wait)
    /\ [](InLoop(pc) => LoopRank >= 0)
    /\ [][(InLoop(pc) /\ InLoop(pc') /\ pc' # pc) => LoopRank' < LoopRank]_vars
    /\ [][report_file => (checks' = checks /\ wait_time' = wait_time
                          /\ ~InLoop(pc'))]_vars

C7_Witness ==
    /\ pc = "located"
    /\ ~report_file /\ checks = max_wait /\ wait_time = max_wait

\* the report was opened and parse_reports has returned
Parsed == pc \in {"return", "done"} /\ DEBUG \in DOMAIN fs

\* the fields of a section the primary pattern captured as valid text
TimingParseable(m) ==
    {"clock"} \cup {k \in {"target", "estimated", "uncertainty"} :
                      FloatOk(m.groups[CASE k = "target" -> 2
                                         [] k = "estimated" -> 3
                                         [] k = "uncertainty" -> 4])}

LatencyParseable(m) ==
    {"pipeline_type"}
      \cup {k \in {"min", "max", "interval_min", "interval_max"} :
              IntOk(m.groups[CASE k = "min" -> 1 [] k = "max" -> 2
                               [] k = "interval_min" -> 3
                               [] k = "interval_max" -> 4])}

UtilizationParseable(m) ==
    {k \in {"BRAM", "DSP", "FF", "LUT", "URAM"} :
       IntOk(UtilCell(m, total_idx,
                      CASE k = "BRAM" -> 2 [] k = "DSP" -> 3 [] k = "FF" -> 4
                        [] k = "LUT" -> 5 [] k = "URAM" -> 6))}

\* C8: no exception leaves the parser, and every field of a section matched
\* by the primary pattern whose captured text is valid is in the result,
\* whatever the other fields of the section and the other sections hold.
C8_BadFieldLosesOnlyItself ==
    /\ pc \in {"parse", "fallback", "return"} => exception = "none"
    /\ Parsed =>
          LET c == fs[REPORT] IN
          /\ c.timing_section.matched =>
                TimingParseable(c.timing_section)
                    \subseteq DOMAIN report_results.timing
          /\ c.latency_section.matched =>
                LatencyParseable(c.latency_section)
                    \subseteq DOMAIN report_results.latency
          /\ c.utilization_section.matched =>
                UtilizationParseable(c.utilization_section)
                    \subseteq DOMAIN report_results.utilization

\* C9: hls_evaluation never raises and what it returns is a Failure or a
\* Success; a tool lookup that finds nothing or cannot run gives the
\* tool-not-found Failure with the tool never started; a failure to write
\* the project files or to start the tool gives an execution-error Failure.
C9_AlwaysReturnsAnOutcome ==
    /\ pc # "raised" /\ exception = "none"
    /\ pc = "done" => (IsFailure(outcome) \/ IsSuccess(outcome))
    /\ (pc = "done" /\ outcome = ToolNotFound) => invocations = 0

FallbackFound(c) ==
    {k \in {"BRAM", "DSP", "FF", "LUT"} :
       (CASE k = "BRAM" -> c.bram_match [] k = "DSP" -> c.dsp_match
          [] k = "FF" -> c.ff_match [] k = "LUT" -> c.lut_match).matched}

FallbackCount(c, k) ==
    IntOf((CASE k = "BRAM" -> c.bram_match [] k = "DSP" -> c.dsp_match
             [] k = "FF" -> c.ff_match [] k = "LUT" -> c.lut_match).groups[1])

\* C11: when the primary utilization pattern did not match and the parser
\* returned without a conversion error, the utilization section holds the
\* used count of every resource category whose label the fallback found,
\* also when only some of the four labels were found.
C11_PartialFallbackUtilization ==
    (Parsed /\ "error" \notin DOMAIN report_results
        /\ ~fs[REPORT].utilization_section.matched) =>
        LET c == fs[REPORT] IN
        /\ DOMAIN report_results.utilization = FallbackFound(c)
        /\ \A k \in FallbackFound(c) :
              report_results.utilization[k] = FallbackCount(c, k)

=============================================================================
